---- MODULE Spec2Model ----
(***************************************************************************)
(* Overmuse/risk-manager: the RiskManager portfolio (src/src/risk_manager.rs)*)
(* and the event loop that drives it (src/src/lib.rs, src/src/input.rs).     *)
(*                                                                           *)
(* Decimals.  rust_decimal values are exact; the model writes every money    *)
(* amount and price as an integer count of 10^-4 (Dec(m, s) is               *)
(* Decimal::new(m, s)), so that the factors 0.5, 0.3 and 1.03 applied to     *)
(* cent-valued prices stay exact.  Share counts are whole numbers (Decimals  *)
(* of scale 0) and trade quantities are isize values far from isize::MIN, so *)
(* that neither isize::abs nor the 96-bit Decimal product overflows.         *)
(***************************************************************************)
EXTENDS Integers, Sequences, FiniteSets, TLC

VARIABLES
    alpaca_client,             \* Option<Client>: TRUE when a client is bound
    cash,                      \* Decimal
    holdings,                  \* HashMap<String, (Shares, Price)>
    is_pattern_day_trader,     \* bool
    last_equity,               \* Decimal
    last_maintenance_margin,   \* Decimal
    pc,                        \* where the caller of the RiskManager stands
    last,                      \* the most recent call on the RiskManager and what it returned
    calls,                     \* number of mutating calls made through the public methods
    delivered,                 \* run: what receive_message has returned, in order
    published,                 \* run: the records sent to "risk-check-response", in order
    hydrated                   \* run: the portfolio as initialize left it

portfolio == <<cash, holdings, is_pattern_day_trader, last_equity, last_maintenance_margin>>
vars == <<alpaca_client, cash, holdings, is_pattern_day_trader, last_equity,
          last_maintenance_margin, pc, last, calls, delivered, published, hydrated>>

----------------------------------------------------------------------------
(* Bounds and input sets *)

MaxCalls == 4
MaxEvents == 3

Tickers == {"AAPL", "TSLA"}

\* Decimal::new(m, s) = m * 10^-s, as a count of 10^-4
Dec(m, s) == m * 10^(4 - s)

\* x * Decimal::new(m, s)
TimesDec(x, m, s) == (x * m) \div 10^s

LotShares == {-1, 3}
LotPrices == {Dec(2, 0), Dec(100, 0)}
MarkPrices == {Dec(25, 1), Dec(5, 0)}
CashValues == {Dec(300, 0)}
Quantities == {-2, -1, 1, 2}
LimitPrices == {Dec(300, 0)}

\* what the datastore would answer to GET {datastore_url}/last/{ticker}
Fetched(p) == [status |-> "ok", price |-> p]
Unavailable == [status |-> "unavailable", price |-> 0]
PriceSource == {Unavailable, Fetched(Dec(100, 0))}

OrderTypes ==
    {[kind |-> "limit", limit_price |-> p] : p \in LimitPrices}
        \cup {[kind |-> "market", limit_price |-> 0], [kind |-> "stop", limit_price |-> 0]}

TradeIntents ==
    {[ticker |-> t, qty |-> q, order_type |-> o] :
        t \in Tickers, q \in Quantities, o \in OrderTypes}

\* what the broker answers to GetAccount and to GetPositions
AccountFails == [ok |-> FALSE, cash |-> 0, pattern_day_trader |-> FALSE,
                 last_equity |-> 0, last_maintenance_margin |-> 0]
Accounts ==
    {[ok |-> TRUE, cash |-> Dec(300, 0), pattern_day_trader |-> TRUE,
      last_equity |-> Dec(1000, 0), last_maintenance_margin |-> Dec(100, 0)],
     [ok |-> TRUE, cash |-> Dec(300, 0), pattern_day_trader |-> FALSE,
      last_equity |-> 0, last_maintenance_margin |-> 0]}

\* a position of the broker: qty is an i32, avg_entry_price a Decimal
Position(qty, avg_entry_price) == [qty |-> qty, avg_entry_price |-> avg_entry_price]
PositionsFail == [ok |-> FALSE, positions |-> [t \in {} |-> 0]]
PositionLists ==
    {[ok |-> TRUE, positions |-> [t \in {} |-> 0]],
     [ok |-> TRUE, positions |->
        [t \in Tickers |-> IF t = "AAPL" THEN Position(1, Dec(100, 0))
                                         ELSE Position(-2, Dec(80, 0))]]}

\* the replies initialize can get: both calls answered, or one of them failing
BrokerReplies ==
    {[account |-> a, positions |-> p] : a \in Accounts, p \in PositionLists}
        \cup {[account |-> AccountFails, positions |-> PositionsFail]}
        \cup {[account |-> a, positions |-> PositionsFail] : a \in Accounts}

----------------------------------------------------------------------------
(* Decimal helpers *)

Abs(x) == IF x < 0 THEN -x ELSE x

\* Decimal::signum: zero for zero
Signum(x) == IF x = 0 THEN 0 ELSE IF x < 0 THEN -1 ELSE 1

Max(a, b) == IF a >= b THEN a ELSE b

\* Decimal::is_sign_positive / is_sign_negative read the sign flag; a zero of
\* either flag adds 0 to every fold below, so zero is taken as positive.
is_sign_positive(d) == d >= 0
is_sign_negative(d) == d < 0

\* Iterator::fold(Decimal::ZERO, |state, x| state + term(x)) over a map's values
RECURSIVE Sum(_)
Sum(f) ==
    IF DOMAIN f = {} THEN 0
    ELSE LET x == CHOOSE y \in DOMAIN f : TRUE
         IN  f[x] + Sum([y \in (DOMAIN f) \ {x} |-> f[y]])

----------------------------------------------------------------------------
(* The RiskManager seen by &self methods *)

Self ==
    [cash |-> cash, holdings |-> holdings,
     is_pattern_day_trader |-> is_pattern_day_trader,
     last_equity |-> last_equity,
     last_maintenance_margin |-> last_maintenance_margin]

EmptyHoldings == [t \in {} |-> 0]

long_market_exposure(rm) ==
    LET h == rm.holdings
    IN  Sum([t \in {u \in DOMAIN h : is_sign_positive(h[u].shares)} |->
                h[t].shares * h[t].price])

\* mutant: the negation of the short shares is forgotten
short_market_exposure_signed(rm) ==
    LET h == rm.holdings
    IN  Sum([t \in {u \in DOMAIN h : is_sign_negative(h[u].shares)} |->
                h[t].shares * h[t].price])

short_market_exposure(rm) ==
    LET h == rm.holdings
    IN  Sum([t \in {u \in DOMAIN h : is_sign_negative(h[u].shares)} |->
                (-h[t].shares) * h[t].price])

gross_market_exposure(rm) ==
    LET h == rm.holdings
    IN  Sum([t \in DOMAIN h |-> Abs(h[t].shares) * h[t].price])

net_market_exposure(rm) ==
    LET h == rm.holdings
    IN  Sum([t \in DOMAIN h |-> h[t].shares * h[t].price])

\* mutant: equity taken from the gross exposure
equity_of_gross(rm) == gross_market_exposure(rm) + rm.cash

equity(rm) == net_market_exposure(rm) + rm.cash

initial_margin(rm) ==
    LET h == rm.holdings
    IN  Sum([t \in DOMAIN h |-> TimesDec(Abs(h[t].shares) * h[t].price, 5, 1)])

\* mutant: the thresholds are compared with > instead of >=
maintenance_margin_above(rm) ==
    LET h == rm.holdings
        times_factor(t, x) ==
            IF is_sign_positive(h[t].shares)
            THEN IF h[t].price > Dec(25, 1) THEN TimesDec(x, 3, 1) ELSE TimesDec(x, 1, 0)
            ELSE IF h[t].price > Dec(5, 0) THEN TimesDec(x, 3, 1) ELSE TimesDec(x, 1, 0)
    IN  Sum([t \in DOMAIN h |-> times_factor(t, Abs(h[t].shares) * h[t].price)])

\* times_factor(t, x) is x * factor for the factor the code picks for t
maintenance_margin(rm) ==
    LET h == rm.holdings
        times_factor(t, x) ==
            IF is_sign_positive(h[t].shares)
            THEN IF h[t].price >= Dec(25, 1) THEN TimesDec(x, 3, 1) ELSE TimesDec(x, 1, 0)
            ELSE IF h[t].price >= Dec(5, 0) THEN TimesDec(x, 3, 1) ELSE TimesDec(x, 1, 0)
    IN  Sum([t \in DOMAIN h |-> times_factor(t, Abs(h[t].shares) * h[t].price)])

\* mutant: one threshold comparison for both kinds of account
multiplier_unified(rm) ==
    LET e == equity(rm)
    IN  IF rm.is_pattern_day_trader
        THEN IF e < Dec(2000, 0) THEN 1
             ELSE IF e < Dec(25000, 0) THEN 2
             ELSE 4
        ELSE IF e >= Dec(25000, 0) THEN 2
        ELSE 1

multiplier(rm) ==
    LET e == equity(rm)
    IN  IF rm.is_pattern_day_trader
        THEN IF e < Dec(2000, 0) THEN 1
             ELSE IF e < Dec(25000, 0) THEN 2
             ELSE 4
        ELSE IF e > Dec(25000, 0) THEN 2
        ELSE 1

regt_buying_power(rm) == Max((equity(rm) - initial_margin(rm)) * 2, 0)

\* mutant: the net exposure is subtracted instead of the gross exposure
daytrading_buying_power_net(rm) ==
    Max((rm.last_equity - rm.last_maintenance_margin) * multiplier(rm)
            - net_market_exposure(rm), 0)

daytrading_buying_power(rm) ==
    Max((rm.last_equity - rm.last_maintenance_margin) * multiplier(rm)
            - gross_market_exposure(rm), 0)

\* mutant: the smaller of the two buying powers
buying_power_min(rm) ==
    IF regt_buying_power(rm) <= daytrading_buying_power(rm)
    THEN regt_buying_power(rm)
    ELSE daytrading_buying_power(rm)

buying_power(rm) == Max(regt_buying_power(rm), daytrading_buying_power(rm))

----------------------------------------------------------------------------
(* risk_check *)

Granted(intent) == [result |-> "granted", intent |-> intent]

ChangeInPositionSide == [tag |-> "change_in_position_side"]

InsufficientBuyingPower(bp) == [tag |-> "insufficient_buying_power", buying_power |-> bp]

Denied(intent, reason) == [result |-> "denied", intent |-> intent, reason |-> reason]

\* Err(anyhow!(..)): neither Granted nor Denied
CheckError == [result |-> "error"]

\* a panic of unwrap(): the call does not return
CheckPanic == [result |-> "panic"]

\* mutant: every trade that is not on the side of the position is a closing trade
IsClosingTradeOrFlat(rm, trade_intent) ==
    /\ trade_intent.ticker \in DOMAIN rm.holdings
    /\ Signum(trade_intent.qty) * Signum(rm.holdings[trade_intent.ticker].shares) # 1

\* the closing branch: the ticker is held and the signs are opposite
IsClosingTrade(rm, trade_intent) ==
    /\ trade_intent.ticker \in DOMAIN rm.holdings
    /\ Signum(trade_intent.qty) * Signum(rm.holdings[trade_intent.ticker].shares) = -1

\* mutant: an exact close counts as a change of side
ExceedsHoldingOrEqual(qty, shares) == Abs(qty) >= Abs(shares)

\* mutant: the quantity is compared without its abs()
ExceedsHoldingSigned(qty, shares) == qty > Abs(shares)

\* qty.abs() > shares.0.abs()
ExceedsHolding(qty, shares) == Abs(qty) > Abs(shares)

\* mutant: buying power equal to the requirement is enough
CompareBuyingPowerOrEqual(rm, trade_intent, required_buying_power) ==
    LET bp == buying_power(rm)
    IN  IF bp >= required_buying_power
        THEN Granted(trade_intent)
        ELSE Denied(trade_intent, InsufficientBuyingPower(bp))

\* mutant: the comparison is the wrong way round
CompareBuyingPowerBelow(rm, trade_intent, required_buying_power) ==
    LET bp == buying_power(rm)
    IN  IF bp < required_buying_power
        THEN Granted(trade_intent)
        ELSE Denied(trade_intent, InsufficientBuyingPower(bp))

\* the comparison that ends risk_check
CompareBuyingPower(rm, trade_intent, required_buying_power) ==
    LET bp == buying_power(rm)
    IN  IF bp > required_buying_power
        THEN Granted(trade_intent)
        ELSE Denied(trade_intent, InsufficientBuyingPower(bp))

\* source: what the datastore answers, asked only on the market branch
risk_check(rm, trade_intent, source) ==
    LET qty == trade_intent.qty
        kind == trade_intent.order_type.kind
    IN  IF IsClosingTrade(rm, trade_intent)
        THEN IF ExceedsHolding(qty, rm.holdings[trade_intent.ticker].shares)
             THEN Denied(trade_intent, ChangeInPositionSide)
             ELSE Granted(trade_intent)
        ELSE CASE kind = "limit" ->
                    CompareBuyingPower(rm, trade_intent,
                        trade_intent.order_type.limit_price * Abs(qty))
               [] kind = "market" ->
                    IF source = Unavailable
                    THEN CheckPanic
                    ELSE CompareBuyingPower(rm, trade_intent,
                            TimesDec(source.price, 103, 2) * Abs(qty))
               [] OTHER -> CheckError

----------------------------------------------------------------------------
(* The public methods, called in any order (as the unit tests do) *)

NoCall == [op |-> "none"]

\* RiskManager::new, or the struct literal of the unit tests
Init ==
    /\ alpaca_client = FALSE
    /\ cash = 0
    /\ holdings = EmptyHoldings
    /\ is_pattern_day_trader \in BOOLEAN
    /\ last_equity = 0
    /\ last_maintenance_margin = 0
    /\ pc = "api"
    /\ last = NoCall
    /\ calls = 0
    /\ delivered = <<>>
    /\ published = <<>>
    /\ hydrated = Self

\* whether initialize returns Ok(()) on this reply
InitializeOk(client, reply) == client /\ reply.account.ok /\ reply.positions.ok

\* the map initialize collects from the positions
CollectHoldings(positions) ==
    [t \in DOMAIN positions |->
        [shares |-> positions[t].qty, price |-> positions[t].avg_entry_price]]

\* mutant: the account fields are assigned as soon as the account call answers
HydrateAccountFirst(rm, client, reply) ==
    IF client /\ reply.account.ok
    THEN [cash |-> reply.account.cash,
          holdings |-> IF reply.positions.ok
                       THEN CollectHoldings(reply.positions.positions)
                       ELSE rm.holdings,
          is_pattern_day_trader |-> reply.account.pattern_day_trader,
          last_equity |-> reply.account.last_equity,
          last_maintenance_margin |-> reply.account.last_maintenance_margin]
    ELSE rm

\* the portfolio initialize leaves, from the portfolio rm it found
Hydrate(rm, client, reply) ==
    IF InitializeOk(client, reply)
    THEN [cash |-> reply.account.cash,
          holdings |-> CollectHoldings(reply.positions.positions),
          is_pattern_day_trader |-> reply.account.pattern_day_trader,
          last_equity |-> reply.account.last_equity,
          last_maintenance_margin |-> reply.account.last_maintenance_margin]
    ELSE rm

SetPortfolio(rm) ==
    /\ cash' = rm.cash
    /\ holdings' = rm.holdings
    /\ is_pattern_day_trader' = rm.is_pattern_day_trader
    /\ last_equity' = rm.last_equity
    /\ last_maintenance_margin' = rm.last_maintenance_margin

initialize(reply) ==
    /\ pc = "api"
    /\ calls < MaxCalls
    /\ SetPortfolio(Hydrate(Self, alpaca_client, reply))
    /\ last' = [op |-> "initialize", ok |-> InitializeOk(alpaca_client, reply)]
    /\ calls' = calls + 1
    /\ UNCHANGED <<alpaca_client, pc, delivered, published, hydrated>>

bind_alpaca_client ==
    /\ pc = "api"
    /\ calls < MaxCalls
    /\ alpaca_client' = TRUE
    /\ last' = [op |-> "bind_alpaca_client"]
    /\ calls' = calls + 1
    /\ UNCHANGED <<cash, holdings, is_pattern_day_trader, last_equity,
                   last_maintenance_margin, pc, delivered, published, hydrated>>

\* mutant: the amount is added to the cash
update_cash_adding(c) ==
    /\ pc = "api"
    /\ calls < MaxCalls
    /\ cash' = cash + c
    /\ last' = [op |-> "update_cash", cash |-> c]
    /\ calls' = calls + 1
    /\ UNCHANGED <<alpaca_client, holdings, is_pattern_day_trader, last_equity,
                   last_maintenance_margin, pc, delivered, published, hydrated>>

update_cash(c) ==
    /\ pc = "api"
    /\ calls < MaxCalls
    /\ cash' = c
    /\ last' = [op |-> "update_cash", cash |-> c]
    /\ calls' = calls + 1
    /\ UNCHANGED <<alpaca_client, holdings, is_pattern_day_trader, last_equity,
                   last_maintenance_margin, pc, delivered, published, hydrated>>

\* mutant: an unheld ticker gets a position of no shares at the price
SetPriceOrInsert(h, ticker, price) ==
    IF ticker \in DOMAIN h
    THEN [h EXCEPT ![ticker].price = price]
    ELSE [u \in (DOMAIN h) \cup {ticker} |->
            IF u = ticker THEN [shares |-> 0, price |-> price] ELSE h[u]]

\* entry(ticker).and_modify(|(_, p)| *p = price)
SetPrice(h, ticker, price) ==
    IF ticker \in DOMAIN h
    THEN [h EXCEPT ![ticker].price = price]
    ELSE h

update_price(ticker, price) ==
    /\ pc = "api"
    /\ calls < MaxCalls
    /\ holdings' = SetPrice(holdings, ticker, price)
    /\ last' = [op |-> "update_price", ticker |-> ticker, price |-> price]
    /\ calls' = calls + 1
    /\ UNCHANGED <<alpaca_client, cash, is_pattern_day_trader, last_equity,
                   last_maintenance_margin, pc, delivered, published, hydrated>>

\* mutant: a fill on a held ticker keeps the stored price
AddLotKeepingPrice(h, ticker, shares, price) ==
    [u \in (DOMAIN h) \cup {ticker} |->
        IF u = ticker
        THEN IF ticker \in DOMAIN h
             THEN [shares |-> h[ticker].shares + shares, price |-> h[ticker].price]
             ELSE [shares |-> shares, price |-> price]
        ELSE h[u]]

\* entry(ticker).and_modify(|(s, p)| { *s = s + shares; *p = price }).or_insert((shares, price))
AddLot(h, ticker, shares, price) ==
    [u \in (DOMAIN h) \cup {ticker} |->
        IF u = ticker
        THEN IF ticker \in DOMAIN h
             THEN [shares |-> h[ticker].shares + shares, price |-> price]
             ELSE [shares |-> shares, price |-> price]
        ELSE h[u]]

\* mutant: every fill costs cash, a short sale too
CashAfterLotUnsigned(c, shares, price) == c - Abs(shares) * price

\* mutant: the cost of the fill is added to the cash
CashAfterLotAdded(c, shares, price) == c + shares * price

\* self.cash -= shares.0 * price.0
CashAfterLot(c, shares, price) == c - shares * price

\* mutant: the position is updated and the cash is not
ApplyLotHoldingsOnly(rm, ticker, shares, price) ==
    [rm EXCEPT !.holdings = AddLot(rm.holdings, ticker, shares, price)]

\* mutant: a fill that takes a position across zero marks the account a day trader
ApplyLotMarkingDayTrader(rm, ticker, shares, price) ==
    [rm EXCEPT !.holdings = AddLot(rm.holdings, ticker, shares, price),
               !.cash = CashAfterLot(rm.cash, shares, price),
               !.is_pattern_day_trader =
                    \/ @
                    \/ /\ ticker \in DOMAIN rm.holdings
                       /\ rm.holdings[ticker].shares * (rm.holdings[ticker].shares + shares) < 0]

\* the body of update_holdings, on a portfolio record
ApplyLot(rm, ticker, shares, price) ==
    [rm EXCEPT !.holdings = AddLot(rm.holdings, ticker, shares, price),
               !.cash = CashAfterLot(rm.cash, shares, price)]

update_holdings(ticker, shares, price) ==
    /\ pc = "api"
    /\ calls < MaxCalls
    /\ SetPortfolio(ApplyLot(Self, ticker, shares, price))
    /\ last' = [op |-> "update_holdings", ticker |-> ticker, shares |-> shares,
                price |-> price]
    /\ calls' = calls + 1
    /\ UNCHANGED <<alpaca_client, pc, delivered, published, hydrated>>

\* mutant: a granted check reserves the required cash
RiskCheckCallReserving(trade_intent, source) ==
    /\ pc = "api"
    /\ calls < MaxCalls
    /\ LET response == risk_check(Self, trade_intent, source)
       IN  /\ SetPortfolio(IF response.result = "granted"
                           THEN [Self EXCEPT !.cash = @ - Dec(1, 0)]
                           ELSE Self)
           /\ last' = [op |-> "risk_check", intent |-> trade_intent,
                       source |-> source, ret |-> response]
           /\ pc' = IF response = CheckPanic THEN "panicked" ELSE pc
    /\ calls' = calls + 1
    /\ UNCHANGED <<alpaca_client, delivered, published, hydrated>>

\* a call of risk_check(&self, ..): the portfolio is only read
RiskCheckCall(trade_intent, source) ==
    /\ pc = "api"
    /\ calls < MaxCalls
    /\ SetPortfolio(Self)
    /\ LET response == risk_check(Self, trade_intent, source)
       IN  /\ last' = [op |-> "risk_check", intent |-> trade_intent,
                       source |-> source, ret |-> response]
           /\ pc' = IF response = CheckPanic THEN "panicked" ELSE pc
    /\ calls' = calls + 1
    /\ UNCHANGED <<alpaca_client, delivered, published, hydrated>>

Next ==
    \/ bind_alpaca_client
    \/ \E r \in BrokerReplies : initialize(r)
    \/ \E c \in CashValues : update_cash(c)
    \/ \E t \in Tickers, p \in MarkPrices : update_price(t, p)
    \/ \E t \in Tickers, s \in LotShares, p \in LotPrices : update_holdings(t, s, p)
    \/ \E i \in TradeIntents, src \in PriceSource : RiskCheckCall(i, src)

Spec == Init /\ [][Next]_vars

----------------------------------------------------------------------------
(* The metrics as functions of the portfolio: any portfolio, then the getters *)

\* cash around the thresholds of multiplier, and a negative balance
MetricCash ==
    {Dec(-500, 0), Dec(199999, 2), Dec(2000, 0), Dec(2499999, 2), Dec(25000, 0),
     Dec(2500001, 2)}

\* prices around the thresholds of maintenance_margin
MetricPrices == {Dec(249, 2), Dec(25, 1), Dec(499, 2), Dec(5, 0)}
MetricShares == {-2, 0, 1}

MetricHoldings ==
    UNION {[T -> [shares : MetricShares, price : MetricPrices]] : T \in SUBSET Tickers}

\* <<last_equity, last_maintenance_margin>>
MetricSnapshots ==
    {<<0, 0>>, <<Dec(1000, 0), Dec(100, 0)>>, <<Dec(100, 0), Dec(1000, 0)>>}

MetricInit ==
    /\ alpaca_client = FALSE
    /\ cash \in MetricCash
    /\ holdings \in MetricHoldings
    /\ is_pattern_day_trader \in BOOLEAN
    /\ \E snapshot \in MetricSnapshots :
            last_equity = snapshot[1] /\ last_maintenance_margin = snapshot[2]
    /\ pc = "metrics"
    /\ last = NoCall
    /\ calls = 0
    /\ delivered = <<>>
    /\ published = <<>>
    /\ hydrated = Self

\* what a &self getter leaves alone: everything but the record of the call
getter_frame ==
    <<alpaca_client, cash, holdings, is_pattern_day_trader, last_equity,
      last_maintenance_margin, pc, calls, delivered, published, hydrated>>

GetMaintenanceMargin ==
    /\ pc = "metrics"
    /\ last' = [op |-> "maintenance_margin", ret |-> maintenance_margin(Self)]
    /\ UNCHANGED getter_frame

GetMultiplier ==
    /\ pc = "metrics"
    /\ last' = [op |-> "multiplier", ret |-> multiplier(Self)]
    /\ UNCHANGED getter_frame

GetRegtBuyingPower ==
    /\ pc = "metrics"
    /\ last' = [op |-> "regt_buying_power", ret |-> regt_buying_power(Self)]
    /\ UNCHANGED getter_frame

GetDaytradingBuyingPower ==
    /\ pc = "metrics"
    /\ last' = [op |-> "daytrading_buying_power", ret |-> daytrading_buying_power(Self)]
    /\ UNCHANGED getter_frame

GetBuyingPower ==
    /\ pc = "metrics"
    /\ last' = [op |-> "buying_power", ret |-> buying_power(Self)]
    /\ UNCHANGED getter_frame

MetricNext ==
    \/ GetMaintenanceMargin
    \/ GetMultiplier
    \/ GetRegtBuyingPower
    \/ GetDaytradingBuyingPower
    \/ GetBuyingPower

MetricSpec == MetricInit /\ [][MetricNext]_vars

----------------------------------------------------------------------------
(* run: start-up, then the loop over the messages receive_message returns *)

\* the messages the loop is fed
RunLots ==
    {[type |-> "lot", ticker |-> t, shares |-> s, price |-> p] :
        t \in Tickers, s \in LotShares, p \in LotPrices}

RunIntents ==
    {i \in TradeIntents :
        \/ i.ticker = "AAPL" /\ i.order_type.kind = "limit" /\ i.qty \in {-1, 2}
        \/ i.ticker = "TSLA" /\ i.order_type.kind \in {"market", "stop"} /\ i.qty = -1}

\* next_open / next_close, in seconds
Durations == {60 * 60 * 12, 60 * 60 * 12 + 1}

RunInit ==
    /\ alpaca_client = FALSE
    /\ cash = 0
    /\ holdings = EmptyHoldings
    /\ is_pattern_day_trader = FALSE
    /\ last_equity = 0
    /\ last_maintenance_margin = 0
    /\ pc = "start"
    /\ last = NoCall
    /\ calls = 0
    /\ delivered = <<>>
    /\ published = <<>>
    /\ hydrated = Self

\* lines 15-27: consumer, producer, Client::new, bind, initialize
RunStartup(wiring, reply) ==
    /\ pc = "start"
    /\ LET client == (wiring = "ok")
           rm == IF wiring = "kafka fails" THEN Self ELSE Hydrate(Self, client, reply)
       IN  /\ alpaca_client' = (wiring = "ok")
           /\ SetPortfolio(rm)
           /\ hydrated' = rm
           /\ pc' = IF wiring # "kafka fails" /\ InitializeOk(client, reply)
                    THEN "loop" ELSE "failed"
           /\ last' = IF wiring = "kafka fails" THEN last
                      ELSE [op |-> "initialize", client |-> client, reply |-> reply,
                            ok |-> InitializeOk(client, reply)]
    /\ UNCHANGED <<calls, delivered, published>>

\* mutant: a message that cannot be received or decoded is skipped
RunReceiveFailsSkipping(why) ==
    /\ pc = "loop"
    /\ Len(delivered) < MaxEvents
    /\ why \in {"recv", "empty payload", "decode"}
    /\ delivered' = Append(delivered, [type |-> "error", why |-> why])
    /\ pc' = "loop"
    /\ UNCHANGED <<alpaca_client, cash, holdings, is_pattern_day_trader, last_equity,
                   last_maintenance_margin, last, calls, published, hydrated>>

\* receive_message returns Err: recv failed, the payload is empty or does not decode
RunReceiveFails(why) ==
    /\ pc = "loop"
    /\ Len(delivered) < MaxEvents
    /\ why \in {"recv", "empty payload", "decode"}
    /\ delivered' = Append(delivered, [type |-> "error", why |-> why])
    /\ pc' = "failed"
    /\ UNCHANGED <<alpaca_client, cash, holdings, is_pattern_day_trader, last_equity,
                   last_maintenance_margin, last, calls, published, hydrated>>

RunLot(lot) ==
    /\ pc = "loop"
    /\ Len(delivered) < MaxEvents
    /\ SetPortfolio(ApplyLot(Self, lot.ticker, lot.shares, lot.price))
    /\ delivered' = Append(delivered, lot)
    /\ UNCHANGED <<alpaca_client, pc, last, calls, published, hydrated>>

IsDecision(response) == response.result \in {"granted", "denied"}

\* JSON values of the payload; a string is the sequence of its characters where
\* it is produced and parsed character by character (a Decimal), and a TLA+
\* string where it is a name
JsonString(str) == [json |-> "string", string |-> str]
JsonObject(fields) == [json |-> "object", fields |-> fields]

DigitChar(n) == <<"0", "1", "2", "3", "4", "5", "6", "7", "8", "9">>[n + 1]
DigitValue(c) == CHOOSE n \in 0..9 : DigitChar(n) = c

RECURSIVE NatToChars(_)
NatToChars(n) ==
    IF n < 10 THEN <<DigitChar(n)>>
    ELSE NatToChars(n \div 10) \o <<DigitChar(n % 10)>>

RECURSIVE CharsToNat(_)
CharsToNat(chars) ==
    IF chars = <<>> THEN 0
    ELSE CharsToNat(SubSeq(chars, 1, Len(chars) - 1)) * 10 + DigitValue(chars[Len(chars)])

\* the four digits after the point of a count of 10^-4
FractionChars(f) ==
    <<DigitChar(f \div 1000), DigitChar((f \div 100) % 10),
      DigitChar((f \div 10) % 10), DigitChar(f % 10)>>

\* Decimal as serde writes it: a string, sign, integer digits, point, fraction
\* (written here at scale 4, the scale of the model's Decimals)
DecimalToString(d) ==
    (IF d < 0 THEN <<"-">> ELSE <<>>)
        \o NatToChars(Abs(d) \div Dec(1, 0)) \o <<".">> \o FractionChars(Abs(d) % Dec(1, 0))

\* Decimal::from_str on what serde reads back
DecimalFromString(chars) ==
    LET negative == chars[1] = "-"
        body == IF negative THEN Tail(chars) ELSE chars
        point == CHOOSE k \in 1..Len(body) : body[k] = "."
        whole == CharsToNat(SubSeq(body, 1, point - 1))
        fraction == SubSeq(body, point + 1, Len(body))
        magnitude == whole * Dec(1, 0) + CharsToNat(fraction) * 10^(4 - Len(fraction))
    IN  IF negative THEN -magnitude ELSE magnitude

\* mutant: the variant names are written without rename_all
ReasonToJsonUnrenamed(reason) ==
    IF reason = ChangeInPositionSide
    THEN JsonString("ChangeInPositionSide")
    ELSE JsonObject([InsufficientBuyingPower |->
                        [buying_power |-> DecimalToString(reason.buying_power)]])

\* DenyReason: externally tagged, snake_case; a unit variant is its name
ReasonToJson(reason) ==
    IF reason = ChangeInPositionSide
    THEN JsonString("change_in_position_side")
    ELSE JsonObject([insufficient_buying_power |->
                        [buying_power |-> DecimalToString(reason.buying_power)]])

\* serde_json::to_string(&response): RiskCheckResponse is tagged by "result";
\* the intent is written and read by TradeIntent's own serde (trading_base)
to_string(response) ==
    IF response.result = "granted"
    THEN JsonObject([result |-> "granted", intent |-> response.intent])
    ELSE JsonObject([result |-> "denied", intent |-> response.intent,
                     reason |-> ReasonToJson(response.reason)])

\* what serde_json::from_str returns on a payload it cannot read
DecodeError == [result |-> "decode error"]

\* Deserialize of DenyReason
ReasonFromJson(json) ==
    IF json.json = "string"
    THEN IF json.string = "change_in_position_side"
         THEN ChangeInPositionSide
         ELSE DecodeError
    ELSE IF DOMAIN json.fields = {"insufficient_buying_power"}
         THEN InsufficientBuyingPower(
                DecimalFromString(json.fields.insufficient_buying_power.buying_power))
         ELSE DecodeError

\* serde_json::from_str::<RiskCheckResponse>
from_str(json) ==
    IF json.fields.result = "granted"
    THEN Granted(json.fields.intent)
    ELSE IF json.fields.result = "denied"
    THEN IF ReasonFromJson(json.fields.reason) = DecodeError
         THEN DecodeError
         ELSE Denied(json.fields.intent, ReasonFromJson(json.fields.reason))
    ELSE DecodeError

\* mutant: the record is keyed by the result instead of the ticker
RecordKeyedByResult(trade_intent, response) ==
    [key |-> response.result, payload |-> to_string(response)]

\* the record sent to "risk-check-response"
Record(trade_intent, response) ==
    [key |-> trade_intent.ticker, payload |-> to_string(response)]

\* mutant: the check runs on the portfolio as initialize left it
RunTradeIntentOnSnapshot(trade_intent, source, sent) ==
    /\ pc = "loop"
    /\ Len(delivered) < MaxEvents
    /\ LET response == risk_check(hydrated, trade_intent, source)
       IN  /\ sent \in (IF IsDecision(response) THEN BOOLEAN ELSE {TRUE})
           /\ published' = IF IsDecision(response) /\ sent
                           THEN Append(published, Record(trade_intent, response))
                           ELSE published
           /\ pc' = IF response = CheckPanic THEN "panicked"
                    ELSE IF IsDecision(response) /\ ~sent THEN "failed"
                    ELSE "loop"
    /\ delivered' = Append(delivered,
            [type |-> "trade_intent", intent |-> trade_intent, source |-> source,
             sent |-> sent])
    /\ UNCHANGED <<alpaca_client, cash, holdings, is_pattern_day_trader, last_equity,
                   last_maintenance_margin, last, calls, hydrated>>

\* mutant: the Err of risk_check is propagated with `?` and ends run
RunTradeIntentPropagating(trade_intent, source, sent) ==
    /\ pc = "loop"
    /\ Len(delivered) < MaxEvents
    /\ LET response == risk_check(Self, trade_intent, source)
       IN  /\ sent \in (IF IsDecision(response) THEN BOOLEAN ELSE {TRUE})
           /\ published' = IF IsDecision(response) /\ sent
                           THEN Append(published, Record(trade_intent, response))
                           ELSE published
           /\ pc' = IF response = CheckPanic THEN "panicked"
                    ELSE IF response = CheckError THEN "failed"
                    ELSE IF IsDecision(response) /\ ~sent THEN "failed"
                    ELSE "loop"
    /\ delivered' = Append(delivered,
            [type |-> "trade_intent", intent |-> trade_intent, source |-> source,
             sent |-> sent])
    /\ UNCHANGED <<alpaca_client, cash, holdings, is_pattern_day_trader, last_equity,
                   last_maintenance_margin, last, calls, hydrated>>

\* sent: whether producer.send succeeds
RunTradeIntent(trade_intent, source, sent) ==
    /\ pc = "loop"
    /\ Len(delivered) < MaxEvents
    /\ LET response == risk_check(Self, trade_intent, source)
       IN  /\ sent \in (IF IsDecision(response) THEN BOOLEAN ELSE {TRUE})
           /\ published' = IF IsDecision(response) /\ sent
                           THEN Append(published, Record(trade_intent, response))
                           ELSE published
           /\ pc' = IF response = CheckPanic THEN "panicked"
                    ELSE IF IsDecision(response) /\ ~sent THEN "failed"
                    ELSE "loop"
    /\ delivered' = Append(delivered,
            [type |-> "trade_intent", intent |-> trade_intent, source |-> source,
             sent |-> sent])
    /\ UNCHANGED <<alpaca_client, cash, holdings, is_pattern_day_trader, last_equity,
                   last_maintenance_margin, last, calls, hydrated>>

\* mutant: twelve hours to the next open are enough to shut down
RunTimeAtLeast(state, secs) ==
    /\ pc = "loop"
    /\ Len(delivered) < MaxEvents
    /\ delivered' = Append(delivered, [type |-> "time", state |-> state, secs |-> secs])
    /\ pc' = IF state = "closed" /\ secs >= 60 * 60 * 12 THEN "stopped" ELSE "loop"
    /\ UNCHANGED <<alpaca_client, cash, holdings, is_pattern_day_trader, last_equity,
                   last_maintenance_margin, last, calls, published, hydrated>>

RunTime(state, secs) ==
    /\ pc = "loop"
    /\ Len(delivered) < MaxEvents
    /\ delivered' = Append(delivered, [type |-> "time", state |-> state, secs |-> secs])
    /\ pc' = IF state = "closed" /\ secs > 60 * 60 * 12 THEN "stopped" ELSE "loop"
    /\ UNCHANGED <<alpaca_client, cash, holdings, is_pattern_day_trader, last_equity,
                   last_maintenance_margin, last, calls, published, hydrated>>

RunNext ==
    \/ \E w \in {"kafka fails", "client fails", "ok"}, r \in BrokerReplies : RunStartup(w, r)
    \/ \E why \in {"recv", "empty payload", "decode"} : RunReceiveFails(why)
    \/ \E lot \in RunLots : RunLot(lot)
    \/ \E i \in RunIntents, src \in PriceSource, sent \in BOOLEAN :
            RunTradeIntent(i, src, sent)
    \/ \E state \in {"open", "closed"}, secs \in Durations : RunTime(state, secs)

RunSpec == RunInit /\ [][RunNext]_vars

----------------------------------------------------------------------------
(* Properties of risk_check, of the metrics and of the public methods (Spec) *)

IsCheck == last.op = "risk_check"

\* the proposal is on a held ticker and its quantity has the opposite sign
OppositeSide(i) ==
    /\ i.ticker \in DOMAIN holdings
    /\ \/ i.qty < 0 /\ holdings[i.ticker].shares > 0
       \/ i.qty > 0 /\ holdings[i.ticker].shares < 0

LimitRequirement(i) == i.order_type.limit_price * Abs(i.qty)

\* C1: a proposal on a held ticker whose quantity has the opposite sign to the
\* held shares and is no larger in magnitude is Granted with its intent,
\* whatever the buying power, the order type and the price source.
C1_ReducingTradeGranted ==
    (/\ IsCheck
     /\ OppositeSide(last.intent)
     /\ Abs(last.intent.qty) <= Abs(holdings[last.intent.ticker].shares))
        => last.ret = [result |-> "granted", intent |-> last.intent]

\* a market order closing a position is granted with no buying power and no price
C1_Witness ==
    /\ IsCheck
    /\ OppositeSide(last.intent)
    /\ Abs(last.intent.qty) = Abs(holdings[last.intent.ticker].shares)
    /\ buying_power(Self) = 0
    /\ last.intent.order_type.kind = "market"
    /\ last.source = Unavailable
    /\ last.ret.result = "granted"

\* C2: a proposal on a held ticker whose quantity has the opposite sign to the
\* held shares and is larger in magnitude is Denied with ChangeInPositionSide,
\* whatever the buying power.
C2_FlippingTradeDenied ==
    (/\ IsCheck
     /\ OppositeSide(last.intent)
     /\ Abs(last.intent.qty) > Abs(holdings[last.intent.ticker].shares))
        => last.ret = [result |-> "denied", intent |-> last.intent,
                       reason |-> [tag |-> "change_in_position_side"]]

\* the flip is denied although the buying power exceeds what the order needs
C2_Witness ==
    /\ IsCheck
    /\ OppositeSide(last.intent)
    /\ Abs(last.intent.qty) > Abs(holdings[last.intent.ticker].shares)
    /\ last.intent.order_type.kind = "limit"
    /\ buying_power(Self) > LimitRequirement(last.intent)
    /\ last.ret.result = "denied"

\* C3: off the closing path a limit order needs limit_price * |qty| and a market
\* order latest_price * 1.03 * |qty|; the check is Granted exactly when
\* buying_power() is strictly greater, and otherwise Denied with
\* InsufficientBuyingPower carrying buying_power().
C3_BuyingPowerDecides ==
    (/\ IsCheck
     /\ ~OppositeSide(last.intent)
     /\ \/ last.intent.order_type.kind = "limit"
        \/ last.intent.order_type.kind = "market" /\ last.source.status = "ok")
        => LET i == last.intent
               bp == buying_power(Self)
               enough == IF i.order_type.kind = "limit"
                         THEN bp > LimitRequirement(i)
                         ELSE bp * 100 > last.source.price * 103 * Abs(i.qty)
           IN  last.ret = IF enough
                          THEN [result |-> "granted", intent |-> i]
                          ELSE [result |-> "denied", intent |-> i,
                                reason |-> [tag |-> "insufficient_buying_power",
                                            buying_power |-> bp]]

\* buying power equal to the requirement is denied, and the denial carries it
C3_Witness ==
    /\ IsCheck
    /\ ~OppositeSide(last.intent)
    /\ last.intent.order_type.kind = "limit"
    /\ buying_power(Self) = LimitRequirement(last.intent)
    /\ buying_power(Self) > 0
    /\ last.ret.result = "denied"
    /\ last.ret.reason.buying_power = buying_power(Self)

\* shares * price of a ticker, zero when it is not held
SignedValue(t) ==
    IF t \in DOMAIN holdings THEN holdings[t].shares * holdings[t].price ELSE 0

\* C4: after any sequence of apply_fill, refresh_price and set_cash,
\* equity() equals net_exposure() + cash.
C4_EquityIsNetPlusCash ==
    /\ equity(Self) = net_market_exposure(Self) + cash
    /\ net_market_exposure(Self) = Sum([t \in Tickers |-> SignedValue(t)])

\* a price refresh after a cash update, with a long and a short position held
C4_Witness ==
    /\ last.op = "update_price"
    /\ cash = Dec(300, 0)
    /\ \E t \in DOMAIN holdings : holdings[t].shares > 0 /\ holdings[t].price = last.price
    /\ \E t \in DOMAIN holdings : holdings[t].shares < 0
    /\ equity(Self) # cash

\* C5: gross_exposure() equals long_exposure() + short_exposure() in every
\* state, with zero-share positions and positions that changed side included.
C5_GrossIsLongPlusShort ==
    gross_market_exposure(Self) = long_market_exposure(Self) + short_market_exposure(Self)

\* the last fill took its ticker across zero while another position holds zero shares
C5_Witness ==
    /\ last.op = "update_holdings"
    /\ holdings[last.ticker].shares * (holdings[last.ticker].shares - last.shares) < 0
    /\ \E t \in DOMAIN holdings : holdings[t].shares = 0
    /\ gross_market_exposure(Self) > 0

\* C10: risk_check leaves cash, every position and the account flags as they
\* were, whatever it returns, and the same limit-order check made again with
\* nothing in between returns the same result.
C10_RiskCheckOnlyReads ==
    [][/\ last'.op = "risk_check" => portfolio' = portfolio
       /\ (/\ IsCheck
           /\ last'.op = "risk_check"
           /\ last'.intent = last.intent
           /\ last.intent.order_type.kind = "limit")
            => last'.ret = last.ret]_vars

\* the same limit-order check has been made twice in a row on a portfolio with
\* cash and a position
C10_Witness ==
    /\ IsCheck
    /\ calls >= 2
    /\ last.intent.order_type.kind = "limit"
    /\ last.ret.result = "granted"
    /\ cash # 0
    /\ holdings # EmptyHoldings

----------------------------------------------------------------------------
(* Properties of the event loop (RunSpec) *)

IsLot(e) == e.type = "lot"

\* the fills delivered so far, in delivery order
Fills == SelectSeq(delivered, IsLot)

IsLotOn(e, t) == e.type = "lot" /\ e.ticker = t

RECURSIVE FillsOn(_, _)
FillsOn(log, t) ==
    IF log = <<>> THEN <<>>
    ELSE (IF IsLotOn(Head(log), t) THEN <<Head(log)>> ELSE <<>>) \o FillsOn(Tail(log), t)

RECURSIVE SumOfShares(_)
SumOfShares(lots) ==
    IF lots = <<>> THEN 0 ELSE Head(lots).shares + SumOfShares(Tail(lots))

RECURSIVE SumOfCost(_)
SumOfCost(lots) ==
    IF lots = <<>> THEN 0
    ELSE Head(lots).shares * Head(lots).price + SumOfCost(Tail(lots))

HydratedShares(t) ==
    IF t \in DOMAIN hydrated.holdings THEN hydrated.holdings[t].shares ELSE 0

\* C6: after any sequence of fills each ticker's position holds the hydrated
\* quantity (zero if it was unheld) plus the sum of the delta_shares applied to
\* it, at the price of the most recent fill on it; a ticker no fill touched is
\* as hydration left it.
C6_SharesSumPriceLatest ==
    \A t \in Tickers :
        LET lots == FillsOn(delivered, t)
        IN  IF lots = <<>>
            THEN /\ (t \in DOMAIN holdings) = (t \in DOMAIN hydrated.holdings)
                 /\ t \in DOMAIN holdings => holdings[t] = hydrated.holdings[t]
            ELSE /\ t \in DOMAIN holdings
                 /\ holdings[t].shares = HydratedShares(t) + SumOfShares(lots)
                 /\ holdings[t].price = lots[Len(lots)].price

\* two fills at different prices on a hydrated ticker, the other ticker untouched
C6_Witness ==
    \E t \in DOMAIN hydrated.holdings :
        LET lots == FillsOn(delivered, t)
        IN  /\ Len(lots) = 2
            /\ lots[1].price # lots[2].price
            /\ lots[2].price # hydrated.holdings[t].price
            /\ \E u \in DOMAIN hydrated.holdings : u # t /\ FillsOn(delivered, u) = <<>>

\* C7: every fill takes delta_shares * fill_price from the cash and succeeds, so
\* the cash is the hydrated cash minus the sum of delta_shares * fill_price.
C7_CashIsStartMinusCost ==
    /\ cash = hydrated.cash - SumOfCost(Fills)
    /\ (delivered # <<>> /\ IsLot(delivered[Len(delivered)])) => pc = "loop"

\* a buy and a short sale have been filled, one of them opening a position
C7_Witness ==
    /\ \E j \in 1..Len(Fills) : Fills[j].shares > 0
    /\ \E j \in 1..Len(Fills) :
            Fills[j].shares < 0 /\ Fills[j].ticker \notin DOMAIN hydrated.holdings
    /\ SumOfCost(Fills) # 0

\* the records the loop owes for a log, starting from portfolio rm: each
\* proposal is checked on rm with exactly the fills before it applied
RECURSIVE RecordsOwed(_, _)
RecordsOwed(rm, log) ==
    IF log = <<>> THEN <<>>
    ELSE LET e == Head(log)
         IN  IF e.type = "lot"
             THEN RecordsOwed(ApplyLot(rm, e.ticker, e.shares, e.price), Tail(log))
             ELSE IF e.type = "trade_intent"
             THEN LET r == risk_check(rm, e.intent, e.source)
                  IN  (IF IsDecision(r) /\ e.sent THEN <<Record(e.intent, r)>> ELSE <<>>)
                        \o RecordsOwed(rm, Tail(log))
             ELSE RecordsOwed(rm, Tail(log))

\* C8: the decision for a proposal is computed on the portfolio with exactly the
\* fills delivered before it applied, in delivery order, and the decisions are
\* published in the order of their proposals.
C8_DecisionsFollowDelivery == published = RecordsOwed(hydrated, delivered)

\* a fill, a proposal and a fill: the published decision is neither the one the
\* hydrated portfolio nor the one the final portfolio would give
C8_Witness ==
    /\ Len(delivered) = 3
    /\ delivered[1].type = "lot"
    /\ delivered[2].type = "trade_intent"
    /\ delivered[3].type = "lot"
    /\ Len(published) = 1
    /\ published[1] # Record(delivered[2].intent,
                             risk_check(hydrated, delivered[2].intent, delivered[2].source))
    /\ published[1] # Record(delivered[2].intent,
                             risk_check(Self, delivered[2].intent, delivered[2].source))

\* the portfolio with the fills at the positions in S applied whole, in order
RECURSIVE WithFills(_, _, _)
WithFills(rm, k, S) ==
    IF k > Len(delivered) THEN rm
    ELSE LET e == delivered[k]
         IN  WithFills(IF e.type = "lot" /\ k \in S
                       THEN [holdings |-> AddLot(rm.holdings, e.ticker, e.shares, e.price),
                             cash |-> rm.cash - e.shares * e.price]
                       ELSE rm,
                       k + 1, S)

\* C9: wherever the loop is about to read the portfolio, each fill has updated
\* both its position and the cash or neither.
C9_NoPartialFill ==
    pc = "loop" =>
        \E S \in SUBSET (1..Len(delivered)) :
            LET rm == WithFills([holdings |-> hydrated.holdings, cash |-> hydrated.cash], 1, S)
            IN  holdings = rm.holdings /\ cash = rm.cash

\* a proposal is checked after two fills that moved position and cash
C9_Witness ==
    /\ pc = "loop"
    /\ Len(delivered) = 3
    /\ delivered[1].type = "lot"
    /\ delivered[2].type = "lot"
    /\ delivered[3].type = "trade_intent"
    /\ cash # hydrated.cash
    /\ holdings # hydrated.holdings
    /\ Len(published) = 1

----------------------------------------------------------------------------
(* Properties of the metrics (MetricSpec) *)

AbsValue(t) == Abs(SignedValue(t))

\* cash plus the signed value of every position
StateEquity == cash + Sum([t \in Tickers |-> SignedValue(t)])

\* the absolute value of every position
StateGross == Sum([t \in Tickers |-> AbsValue(t)])

\* (equity - initial_margin) * 2, with half of each position's value as its margin
StateRegt == (StateEquity - Sum([t \in Tickers |-> AbsValue(t) \div 2])) * 2

StateMultiplier ==
    IF is_pattern_day_trader
    THEN CASE StateEquity < Dec(2000, 0) -> 1
           [] StateEquity >= Dec(2000, 0) /\ StateEquity < Dec(25000, 0) -> 2
           [] StateEquity >= Dec(25000, 0) -> 4
    ELSE IF StateEquity > Dec(25000, 0) THEN 2 ELSE 1

StateDaytrading == (last_equity - last_maintenance_margin) * StateMultiplier - StateGross

IsLargestOf(x, S) == x \in S /\ \A y \in S : x >= y

\* C14: buying_power() is the larger of regt_buying_power() and
\* daytrading_buying_power(), the first being (equity - initial_margin) * 2 and
\* the second (last_equity - last_maintenance_margin) * multiplier -
\* gross_exposure, each replaced by 0 when negative; it is never negative.
C14_BuyingPowerIsClampedMax ==
    /\ last.op = "regt_buying_power" => IsLargestOf(last.ret, {0, StateRegt})
    /\ last.op = "daytrading_buying_power" => IsLargestOf(last.ret, {0, StateDaytrading})
    /\ last.op = "buying_power"
          => /\ IsLargestOf(last.ret, {0, StateRegt, StateDaytrading})
             /\ last.ret >= 0

\* negative equity, and the day-trading figure alone gives a buying power
C14_Witness ==
    /\ last.op = "buying_power"
    /\ StateEquity < 0
    /\ StateRegt < 0
    /\ StateDaytrading > 0
    /\ last.ret = StateDaytrading

\* C15: multiplier() is 1, 2 or 4 for a pattern day trader with equity below
\* 2000, from 2000 to below 25000, and from 25000 on; for another account it is
\* 2 above 25000 and 1 otherwise, so equity of exactly 25000 gives 4 and 1.
C15_MultiplierTiers ==
    last.op = "multiplier" =>
        /\ (is_pattern_day_trader /\ StateEquity < Dec(2000, 0)) => last.ret = 1
        /\ (is_pattern_day_trader /\ Dec(2000, 0) <= StateEquity
                /\ StateEquity < Dec(25000, 0)) => last.ret = 2
        /\ (is_pattern_day_trader /\ StateEquity >= Dec(25000, 0)) => last.ret = 4
        /\ (~is_pattern_day_trader /\ StateEquity > Dec(25000, 0)) => last.ret = 2
        /\ (~is_pattern_day_trader /\ StateEquity <= Dec(25000, 0)) => last.ret = 1

\* equity of exactly 25000 with a long and a short position, not a day trader
C15_Witness ==
    /\ last.op = "multiplier"
    /\ ~is_pattern_day_trader
    /\ StateEquity = Dec(25000, 0)
    /\ StateGross > 0
    /\ last.ret = 1

\* ten times the rate of the claim for the position on t
RateTenths(t) ==
    IF holdings[t].shares >= 0
    THEN IF holdings[t].price >= Dec(250, 2) THEN 3 ELSE 10
    ELSE IF holdings[t].price >= Dec(500, 2) THEN 3 ELSE 10

\* C16: maintenance_margin() is the sum of |shares| * price * rate, the rate
\* being 0.3 for a long position priced at 2.50 or more and for a short
\* position priced at 5.00 or more, and 1.0 otherwise.
C16_MaintenanceMarginRates ==
    last.op = "maintenance_margin" =>
        last.ret * 10 =
            Sum([t \in DOMAIN holdings |->
                    Abs(holdings[t].shares) * holdings[t].price * RateTenths(t)])

\* a long position at exactly 2.50 and a short position at 4.99
C16_Witness ==
    /\ last.op = "maintenance_margin"
    /\ \E t \in DOMAIN holdings : holdings[t].shares > 0 /\ holdings[t].price = Dec(25, 1)
    /\ \E t \in DOMAIN holdings : holdings[t].shares < 0 /\ holdings[t].price = Dec(499, 2)
    /\ last.ret = Dec(75, 2) + Dec(998, 2)

----------------------------------------------------------------------------
(* Properties of the buying power and of the frame of the setters (Spec) *)

\* C17: with last_equity and last_maintenance_margin both zero, after any
\* fills, price refreshes and cash updates, daytrading_buying_power() is zero
\* and buying_power() is regt_buying_power().
C17_NoSnapshotMeansRegtOnly ==
    (last_equity = 0 /\ last_maintenance_margin = 0)
        => /\ daytrading_buying_power(Self) = 0
           /\ buying_power(Self) = regt_buying_power(Self)
           /\ IsLargestOf(buying_power(Self), {0, StateRegt})

\* a net short portfolio with a positive regt buying power
C17_Witness ==
    /\ last_equity = 0
    /\ last_maintenance_margin = 0
    /\ last.op \in {"update_holdings", "update_price", "update_cash"}
    /\ net_market_exposure(Self) < 0
    /\ StateRegt > 0
    /\ buying_power(Self) = StateRegt

\* the frame of update_price and update_cash: what a step leaves as it was
SameFlags ==
    /\ is_pattern_day_trader' = is_pattern_day_trader
    /\ last_equity' = last_equity
    /\ last_maintenance_margin' = last_maintenance_margin

\* C19: refresh_price on a held ticker overwrites that ticker's price and
\* leaves its shares, every other position, cash and the flags as they were;
\* on an unheld ticker it changes nothing and inserts no position.
C19_RefreshPriceFrame ==
    [][last'.op = "update_price"
        => /\ cash' = cash
           /\ SameFlags
           /\ DOMAIN holdings' = DOMAIN holdings
           /\ \A t \in DOMAIN holdings :
                /\ holdings'[t].shares = holdings[t].shares
                /\ holdings'[t].price =
                        IF t = last'.ticker THEN last'.price ELSE holdings[t].price
           /\ last'.ticker \notin DOMAIN holdings => holdings' = holdings]_vars

\* the price of an unheld ticker was refreshed while the other ticker is held
C19_Witness ==
    /\ last.op = "update_price"
    /\ last.ticker \notin DOMAIN holdings
    /\ holdings # EmptyHoldings
    /\ \A t \in DOMAIN holdings : holdings[t].price # last.price

\* C20: set_cash(amount) sets cash to exactly amount, whatever the fills before
\* it took from or added to the cash, and leaves every position and the flags
\* as they were.
C20_SetCashIsAbsolute ==
    [][last'.op = "update_cash"
        => /\ cash' = last'.cash
           /\ holdings' = holdings
           /\ SameFlags]_vars

\* cash was set after fills, with no hydration, had moved it
C20_Witness ==
    /\ last.op = "update_cash"
    /\ ~alpaca_client
    /\ holdings # EmptyHoldings
    /\ net_market_exposure(Self) # 0
    /\ cash = Dec(300, 0)

\* C21: once hydrated, is_pattern_day_trader, last_equity and
\* last_maintenance_margin keep their values: no fill, price refresh, cash
\* update or admission check changes them, only initialize writes them.
C21_SnapshotFieldsAreFrozen ==
    [][last'.op # "initialize" => SameFlags]_vars

\* a hydrated day trader's position was taken across zero by a fill
C21_Witness ==
    /\ last.op = "update_holdings"
    /\ alpaca_client
    /\ is_pattern_day_trader
    /\ last_equity = Dec(1000, 0)
    /\ last_maintenance_margin = Dec(100, 0)
    /\ holdings[last.ticker].shares * (holdings[last.ticker].shares - last.shares) < 0

----------------------------------------------------------------------------
(* Properties of start-up and of the errors of the loop (RunSpec) *)

\* the proposal is off the closing branch on portfolio rm
OffClosingPath(rm, i) ==
    \/ i.ticker \notin DOMAIN rm.holdings
    \/ i.qty * rm.holdings[i.ticker].shares >= 0

\* the proposal, granted on portfolio a, is granted on portfolio b of larger
\* buying power
GrantedAlsoAbove(a, b, i, src) ==
    (/\ OffClosingPath(a, i)
     /\ OffClosingPath(b, i)
     /\ i.order_type.kind \in {"limit", "market"}
     /\ buying_power(a) < buying_power(b)
     /\ risk_check(a, i, src).result = "granted")
        => risk_check(b, i, src).result = "granted"

\* C18: of two portfolios with buying powers B < B', a proposal off the closing
\* path with the same required amount that is granted at B is granted at B';
\* the two portfolios are the one hydration left and the current one.
C18_GrantingIsMonotonic ==
    buying_power(hydrated) # buying_power(Self) =>
        \A i \in RunIntents, src \in PriceSource \ {Unavailable} :
            /\ GrantedAlsoAbove(hydrated, Self, i, src)
            /\ GrantedAlsoAbove(Self, hydrated, i, src)

\* fills raised the buying power: one proposal is granted before and after,
\* another is granted only after
C18_Witness ==
    /\ buying_power(hydrated) < buying_power(Self)
    /\ \E i \in RunIntents, src \in PriceSource \ {Unavailable} :
            /\ i.order_type.kind = "market"
            /\ OffClosingPath(hydrated, i)
            /\ OffClosingPath(Self, i)
            /\ risk_check(hydrated, i, src).result = "granted"
            /\ risk_check(Self, i, src).result = "granted"
    /\ \E j \in RunIntents :
            /\ j.order_type.kind = "limit"
            /\ OffClosingPath(hydrated, j)
            /\ OffClosingPath(Self, j)
            /\ risk_check(hydrated, j, Unavailable).result = "denied"
            /\ risk_check(Self, j, Unavailable).result = "granted"

\* the step delivers a proposal to the loop
DeliversIntent ==
    /\ pc = "loop"
    /\ Len(delivered') = Len(delivered) + 1
    /\ delivered'[Len(delivered')].type = "trade_intent"

Delivered == delivered'[Len(delivered')]

\* C11: a proposal off the closing path whose order type is neither market nor
\* limit makes risk_check return an error that is neither Granted nor Denied;
\* run does not crash, publishes nothing for it, leaves the portfolio as it was
\* and goes on with the next event.
C11_UnsupportedOrderTypeSkipped ==
    [][(/\ DeliversIntent
        /\ Delivered.intent.order_type.kind \notin {"market", "limit"}
        /\ ~OppositeSide(Delivered.intent))
            => /\ risk_check(Self, Delivered.intent, Delivered.source).result
                    \notin {"granted", "denied", "panic"}
               /\ published' = published
               /\ portfolio' = portfolio
               /\ pc' = "loop"]_vars

\* a stop order on the same side as the held position was skipped, and the fill
\* that followed it was applied
C11_Witness ==
    /\ Len(delivered) = 2
    /\ delivered[1].type = "trade_intent"
    /\ delivered[1].intent.order_type.kind = "stop"
    /\ delivered[1].intent.ticker \in DOMAIN hydrated.holdings
    /\ hydrated.holdings[delivered[1].intent.ticker].shares * delivered[1].intent.qty > 0
    /\ delivered[2].type = "lot"
    /\ cash # hydrated.cash
    /\ published = <<>>
    /\ pc = "loop"

\* C12: a market-order check off the closing path whose price lookup fails ends
\* in an error for that check alone: no decision, the portfolio unchanged, and
\* run goes on with the events that follow.
C12_FailedLookupSkipped ==
    [][(/\ DeliversIntent
        /\ Delivered.intent.order_type.kind = "market"
        /\ Delivered.source = Unavailable
        /\ ~OppositeSide(Delivered.intent))
            => /\ published' = published
               /\ portfolio' = portfolio
               /\ pc' = "loop"]_vars

HydrationOk == last.op = "initialize" /\ last.client /\ last.reply.account.ok /\ last.reply.positions.ok

\* C13: when no client is bound or the account call or the positions call
\* fails, initialize leaves cash, holdings and flags as new() set them and run
\* ends with the error, with no event consumed and no decision published; no
\* fill or proposal is processed before a hydration that succeeded.
C13_HydrationFailureIsFatal ==
    /\ (last.op = "initialize" /\ ~HydrationOk)
          => /\ pc = "failed"
             /\ Self = [cash |-> 0, holdings |-> EmptyHoldings,
                         is_pattern_day_trader |-> FALSE, last_equity |-> 0,
                         last_maintenance_margin |-> 0]
             /\ delivered = <<>>
             /\ published = <<>>
    /\ delivered # <<>>
          => /\ HydrationOk
             /\ hydrated.cash = last.reply.account.cash
             /\ DOMAIN hydrated.holdings = DOMAIN last.reply.positions.positions

\* the account call answered and the positions call failed
C13_Witness ==
    /\ last.op = "initialize"
    /\ last.client
    /\ last.reply.account.ok
    /\ last.reply.account.cash # 0
    /\ ~last.reply.positions.ok
    /\ pc = "failed"

----------------------------------------------------------------------------
(* Properties of the published records and of the end of the loop (RunSpec) *)

\* the last record published
Published == published'[Len(published')]

\* C24: the record published for a decision, deserialized, is the decision
\* risk_check returned: Granted, Denied with InsufficientBuyingPower and the
\* same buying_power, or Denied with ChangeInPositionSide, with the same intent.
C24_DecisionRoundTrip ==
    [][(DeliversIntent /\ published' # published)
        => from_str(Published.payload)
                = risk_check(Self, Delivered.intent, Delivered.source)]_vars

\* an InsufficientBuyingPower denial and a ChangeInPositionSide denial have
\* been published and read back
C24_Witness ==
    /\ \E k \in 1..Len(published) :
            /\ from_str(published[k].payload).result = "denied"
            /\ from_str(published[k].payload).reason = ChangeInPositionSide
    /\ \E k \in 1..Len(published) :
            /\ from_str(published[k].payload).result = "denied"
            /\ from_str(published[k].payload).reason # ChangeInPositionSide
            /\ from_str(published[k].payload).reason.buying_power > 0

\* the step takes one more message from receive_message
DeliversEvent == pc = "loop" /\ Len(delivered') = Len(delivered) + 1

\* the decision of the proposal the step delivers
Decision == risk_check(Self, Delivered.intent, Delivered.source)

\* one more record, keyed by the ticker, with the intent and, when denied, a reason
PublishesDecision ==
    /\ Len(published') = Len(published) + 1
    /\ SubSeq(published', 1, Len(published)) = published
    /\ Published.key = Delivered.intent.ticker
    /\ Published.payload.fields.intent = Delivered.intent
    /\ Published.payload.fields.result = Decision.result
    /\ ("reason" \in DOMAIN Published.payload.fields) = (Decision.result = "denied")

\* C22 as stated: every proposal whose check returns a decision results in
\* exactly one published record, keyed by its ticker and carrying its intent
\* (and the reason when denied); fills and time events publish nothing.
C22_EveryDecisionPublished ==
    [][/\ (DeliversIntent /\ IsDecision(Decision)) => PublishesDecision
       /\ (DeliversEvent /\ Delivered.type \in {"lot", "time"})
            => published' = published]_vars

\* C22, amended: every proposal whose check returns a decision is handed to the
\* producer once; when the send succeeds exactly one record is published, keyed
\* by the ticker and carrying the intent (and the reason when denied); when the
\* send fails no record is published and run ends with the error; fills and
\* time events publish nothing.
C22_DecisionSentOnce ==
    [][/\ (DeliversIntent /\ IsDecision(Decision) /\ Delivered.sent) => PublishesDecision
       /\ (DeliversIntent /\ IsDecision(Decision) /\ ~Delivered.sent)
            => published' = published /\ pc' = "failed"
       /\ (DeliversEvent /\ Delivered.type \in {"lot", "time"})
            => published' = published]_vars

\* two proposals on different tickers with a fill between them: two records,
\* each under its ticker, one of them a denial
C22_Witness ==
    /\ Len(delivered) = 3
    /\ delivered[1].type = "trade_intent"
    /\ delivered[2].type = "lot"
    /\ delivered[3].type = "trade_intent"
    /\ Len(published) = 2
    /\ published[1].key = delivered[1].intent.ticker
    /\ published[2].key = delivered[3].intent.ticker
    /\ published[1].key # published[2].key
    /\ published[1].payload.fields.result = "denied"

\* the step delivers a market-closed event whose next_open exceeds 12 hours
DeliversLateClose ==
    /\ DeliversEvent
    /\ Delivered.type = "time"
    /\ Delivered.state = "closed"
    /\ Delivered.secs > 43200

Without(rm, t) ==
    [rm EXCEPT !.holdings = [u \in (DOMAIN rm.holdings) \ {t} |-> rm.holdings[u]]]

SameMetrics(a, b) ==
    /\ long_market_exposure(a) = long_market_exposure(b)
    /\ short_market_exposure(a) = short_market_exposure(b)
    /\ gross_market_exposure(a) = gross_market_exposure(b)
    /\ net_market_exposure(a) = net_market_exposure(b)
    /\ equity(a) = equity(b)
    /\ initial_margin(a) = initial_margin(b)
    /\ maintenance_margin(a) = maintenance_margin(b)
    /\ buying_power(a) = buying_power(b)

\* a proposal the buying-power comparison decides when it is off the closing branch
PricedIntents ==
    {<<i, src>> \in TradeIntents \X PriceSource :
        \/ i.order_type.kind = "limit"
        \/ i.order_type.kind = "market" /\ src # Unavailable}

\* C25: a ticker that fills brought to zero shares stays in the map and is as
\* good as absent: every exposure and margin metric is what it would be without
\* it, and a proposal on it, in either direction, is decided by the
\* buying-power comparison as for an unheld ticker, never ChangeInPositionSide.
C25_ZeroPositionIsFlat ==
    /\ \A t \in Tickers :
            (t \in DOMAIN hydrated.holdings \/ FillsOn(delivered, t) # <<>>)
                => t \in DOMAIN holdings
    /\ \A t \in DOMAIN holdings :
            holdings[t].shares = 0 =>
                /\ SameMetrics(Self, Without(Self, t))
                /\ \A p \in PricedIntents :
                        p[1].ticker = t =>
                            LET r == risk_check(Self, p[1], p[2])
                            IN  /\ r = risk_check(Without(Self, t), p[1], p[2])
                                /\ \/ r.result = "granted"
                                   \/ /\ r.result = "denied"
                                      /\ r.reason = [tag |-> "insufficient_buying_power",
                                                     buying_power |-> buying_power(Self)]

\* a hydrated position was sold out by a fill and a proposal on its ticker was
\* then decided and published
C25_Witness ==
    /\ Len(delivered) >= 2
    /\ delivered[Len(delivered)].type = "trade_intent"
    /\ LET t == delivered[Len(delivered)].intent.ticker
       IN  /\ t \in DOMAIN holdings
           /\ holdings[t].shares = 0
           /\ HydratedShares(t) # 0
           /\ FillsOn(delivered, t) # <<>>
           /\ published # <<>>
           /\ published[Len(published)].key = t

\* C26: a fill changes equity by old_shares * (fill_price - old_stored_price)
\* of its ticker, so a fill on an unheld ticker or at the stored price leaves
\* equity as it was, whatever its size and direction.
C26_FillRepricesOldShares ==
    [][(DeliversEvent /\ Delivered.type = "lot")
        => StateEquity' - StateEquity =
                IF Delivered.ticker \in DOMAIN holdings
                THEN holdings[Delivered.ticker].shares
                        * (Delivered.price - holdings[Delivered.ticker].price)
                ELSE 0]_vars

\* a fill opened a position and a second fill on it at another price moved equity
C26_Witness ==
    \E t \in Tickers :
        LET lots == FillsOn(delivered, t)
        IN  /\ t \notin DOMAIN hydrated.holdings
            /\ Len(lots) = 2
            /\ lots[1].price # lots[2].price
            /\ lots[1].shares * lots[2].shares < 0
            /\ equity(Self) = equity(hydrated) + lots[1].shares * (lots[2].price - lots[1].price)
            /\ equity(Self) # equity(hydrated)

\* the step takes a message that cannot be received or decoded, or fails to
\* send a decision
TransportFails ==
    /\ DeliversEvent
    /\ \/ Delivered.type = "error"
       \/ Delivered.type = "trade_intent" /\ IsDecision(Decision) /\ ~Delivered.sent

\* C27: when receiving fails, the payload is empty or does not decode, or the
\* send of a decision fails, run returns an error: nothing is published for
\* the step, and afterwards no event is processed and no decision published.
C27_TransportFailureEndsRun ==
    [][/\ TransportFails
            => /\ pc' = "failed"
               /\ published' = published
               /\ portfolio' = portfolio
       /\ pc # "failed"]_vars

\* a decision was published, then the send of the next one failed
C27_Witness ==
    /\ pc = "failed"
    /\ Len(delivered) = 2
    /\ delivered[1].type = "trade_intent"
    /\ Len(published) = 1
    /\ delivered[2].type = "trade_intent"
    /\ ~delivered[2].sent

====
